---- MODULE Spec2Model ----
(***************************************************************************)
(* A model of the TCP peer-to-peer client of the agent                     *)
(* (clients/tcp/tcp.go): construction, connection establishment, the       *)
(* authentication loop, the transform pipeline and the message exchange.   *)
(*                                                                         *)
(* The client runs on one thread, so every exported method is one atomic   *)
(* action; Authenticate, whose body is a loop, is one action for its       *)
(* prologue and one action per loop iteration.  The sockets, the peer, the *)
(* authenticator and the caller are the environment: their outcomes are    *)
(* drawn with \E from small sets.                                          *)
(***************************************************************************)
EXTENDS Integers, Sequences, FiniteSets, TLC

VARIABLES
    pc,             \* "new": before New; "idle": between calls; "auth": inside Authenticate's loop; "none": New returned nil; "panic"
    mode,           \* Client.mode
    listener,       \* Client.listener: Nil or a socket handle
    connection,     \* Client.connection: Nil or a socket handle
    paddingMax,     \* Client.paddingMax
    psk,            \* Client.psk
    secret,         \* Client.secret: a byte sequence
    transformers,   \* Client.transformers: a sequence of stage names
    authenticator,  \* Client.authenticator: "nil", "opaque" or "none"
    nextSock,       \* the next socket handle the operating system hands out
    authMsg,        \* Authenticate's local msg
    authRound,      \* the number of completed iterations of Authenticate's loop
    reset,          \* the connection was cleared at an end of stream, and Connect has not run since
    last            \* what the last call did: its name, arguments, result and the calls it made

vars == <<pc, mode, listener, connection, paddingMax, psk, secret, transformers,
          authenticator, nextSock, authMsg, authRound, reset, last>>

client == <<mode, listener, connection, paddingMax, psk, secret, transformers, authenticator>>

----------------------------------------------------------------------------
(* Bounds *)

MaxStages == 2      \* longest transform list
MaxPad == 1         \* largest padding length of a message given by a caller
MaxSocks == 3       \* socket handles the operating system hands out in one run
MaxRounds == 2      \* iterations of Authenticate's loop explored

----------------------------------------------------------------------------
(* Program constants *)

BIND == 0
REVERSE == 1

Nil == 0            \* a nil net.Conn / net.Listener; handles are 1, 2, ...

----------------------------------------------------------------------------
(* Values *)

StageNames == {"gob-base", "gob-string", "aes", "jwe"}

\* messages.Base: an identifier/body and the length of its padding
Msg(id, pad) == [id |-> id, pad |-> pad]
ZeroBase == Msg("zero", 0)           \* messages.Base{}
NoMsg == Msg("-", 0)                 \* the body of bytes that encode no message
MsgIds == {"m1", "m2"}
Messages == {Msg(id, p) : id \in MsgIds, p \in 0..MaxPad}

\* A value passed between stages: a Base message, bytes or a string.  Bytes
\* are the layers the stages have wrapped (outermost first) around a body.
BaseValue(m) == [t |-> "base", layers |-> <<>>, body |-> m]
NilBytes == [t |-> "bytes", layers |-> <<>>, body |-> NoMsg]

\* byte sequences used as keys: the empty one, digests (32 bytes), the keys
\* an authenticator and a peer hold (32 bytes), and the bytes of short strings
EmptyKey == <<>>
Sha256(p) == <<"sha256", p>>
SessionKey == <<"session-key">>
OtherKey == <<"other-key">>

----------------------------------------------------------------------------
(* Transform stages (transformers.Transformer).  Each stage is reversible: *)
(* Construct wraps its input in one layer, Deconstruct removes that layer  *)
(* and returns what was wrapped.  An encrypter binds the layer to the key  *)
(* and fails on a key it cannot use: "aes" on one that is not of the size  *)
(* of an AES key, "jwe" on an empty one.  An encoder ignores the key.      *)

IsEncrypter(st) == st \in {"aes", "jwe"}

AESKeySize(key) == key = SessionKey \/ key = OtherKey \/ (Len(key) = 2 /\ key[1] = "sha256")

UsableKey(st, key) ==
    CASE st = "aes" -> AESKeySize(key)
      [] st = "jwe" -> key # EmptyKey
      [] OTHER -> TRUE

Layer(st, key, of) == [st |-> st, key |-> IF IsEncrypter(st) THEN key ELSE EmptyKey, of |-> of]

\* Transformer.Construct(data any, key []byte) ([]byte, error)
StageConstruct(st, input, key) ==
    IF ~UsableKey(st, key)
    THEN [ok |-> FALSE, data |-> NilBytes]
    ELSE [ok |-> TRUE,
          data |-> [t |-> "bytes",
                    layers |-> <<Layer(st, key, input.t)>> \o input.layers,
                    body |-> input.body]]

\* Transformer.Deconstruct(data, key []byte) (any, error): the value returned
\* is a Base message, bytes or (from the string encoder) a string
StageDeconstruct(st, data, key) ==
    IF \/ ~UsableKey(st, key)
       \/ data.layers = <<>>
       \/ Head(data.layers).st # st
       \/ Head(data.layers).key # Layer(st, key, "bytes").key
    THEN [ok |-> FALSE, ret |-> NilBytes]
    ELSE LET top == Head(data.layers)
             rest == Tail(data.layers)
         IN [ok |-> TRUE,
             ret |-> IF top.of = "base"
                     THEN [t |-> "base", layers |-> rest, body |-> data.body]
                     ELSE [t |-> IF st = "gob-string" THEN "string" ELSE "bytes",
                           layers |-> rest, body |-> data.body]]

\* one call of a stage, as recorded in last.ccalls and last.dcalls
Call(i, in, key, r, out) == [i |-> i, in |-> in, key |-> key, ok |-> r.ok, out |-> out]

----------------------------------------------------------------------------
(* Client.Construct: the loop  for i := len(transformers); i > 0; i--      *)

RECURSIVE ConstructLoop(_, _, _, _, _, _)
ConstructLoop(ts, i, msg, data, key, calls) ==
    IF ~(i > 0)
    THEN [err |-> FALSE, data |-> data, calls |-> calls]
    ELSE LET input == IF i = Len(ts) THEN BaseValue(msg) ELSE data
             r == StageConstruct(ts[i], input, key)
             c == Append(calls, Call(i - 1, input, key, r, r.data))
         IN IF ~r.ok
            THEN [err |-> TRUE, data |-> NilBytes, calls |-> c]
            ELSE ConstructLoop(ts, i - 1, msg, r.data, key, c)

\* the loop run from the first stage to the last
RECURSIVE ConstructLoopForward(_, _, _, _, _, _)
ConstructLoopForward(ts, i, msg, data, key, calls) ==
    IF i > Len(ts)
    THEN [err |-> FALSE, data |-> data, calls |-> calls]
    ELSE LET input == IF i = 1 THEN BaseValue(msg) ELSE data
             r == StageConstruct(ts[i], input, key)
             c == Append(calls, Call(i - 1, input, key, r, r.data))
         IN IF ~r.ok
            THEN [err |-> TRUE, data |-> NilBytes, calls |-> c]
            ELSE ConstructLoopForward(ts, i + 1, msg, r.data, key, c)

ConstructForward(ts, msg, key) == ConstructLoopForward(ts, 1, msg, NilBytes, key, <<>>)

Construct(ts, msg, key) == ConstructLoop(ts, Len(ts), msg, NilBytes, key, <<>>)

----------------------------------------------------------------------------
(* Client.Deconstruct: the loop  for _, transform := range transformers    *)

\* data = []byte(ret.(string)): the same bytes, as a byte slice
BytesOfString(v) == [t |-> "bytes", layers |-> v.layers, body |-> v.body]

RECURSIVE DeconstructLoop(_, _, _, _, _)
DeconstructLoop(ts, i, data, key, calls) ==
    IF i > Len(ts)
    THEN [err |-> "no-base", msg |-> ZeroBase, calls |-> calls]
    ELSE LET r == StageDeconstruct(ts[i], data, key)
             c == Append(calls, Call(i - 1, data, key, r, r.ret))
         IN IF ~r.ok
            THEN [err |-> "stage", msg |-> ZeroBase, calls |-> c]
            ELSE CASE r.ret.t = "bytes" -> DeconstructLoop(ts, i + 1, r.ret, key, c)
                   [] r.ret.t = "string" -> DeconstructLoop(ts, i + 1, BytesOfString(r.ret), key, c)
                   [] r.ret.t = "base" -> [err |-> "", msg |-> r.ret.body, calls |-> c]
                   [] OTHER -> [err |-> "type", msg |-> ZeroBase, calls |-> c]

\* the loop run from the last stage to the first
RECURSIVE DeconstructLoopReversed(_, _, _, _, _)
DeconstructLoopReversed(ts, i, data, key, calls) ==
    IF i < 1
    THEN [err |-> "no-base", msg |-> ZeroBase, calls |-> calls]
    ELSE LET r == StageDeconstruct(ts[i], data, key)
             c == Append(calls, Call(i - 1, data, key, r, r.ret))
         IN IF ~r.ok
            THEN [err |-> "stage", msg |-> ZeroBase, calls |-> c]
            ELSE CASE r.ret.t = "bytes" -> DeconstructLoopReversed(ts, i - 1, r.ret, key, c)
                   [] r.ret.t = "string" ->
                        DeconstructLoopReversed(ts, i - 1, BytesOfString(r.ret), key, c)
                   [] r.ret.t = "base" -> [err |-> "", msg |-> r.ret.body, calls |-> c]
                   [] OTHER -> [err |-> "type", msg |-> ZeroBase, calls |-> c]

DeconstructReversed(ts, data, key) == DeconstructLoopReversed(ts, Len(ts), data, key, <<>>)

\* the loop without the return in the messages.Base case: the message is
\* returned once the stages are exhausted
RECURSIVE DeconstructLoopToEnd(_, _, _, _, _, _)
DeconstructLoopToEnd(ts, i, data, key, calls, got) ==
    IF i > Len(ts)
    THEN IF got.t = "base" THEN [err |-> "", msg |-> got.body, calls |-> calls]
         ELSE [err |-> "no-base", msg |-> ZeroBase, calls |-> calls]
    ELSE LET r == StageDeconstruct(ts[i], data, key)
             c == Append(calls, Call(i - 1, data, key, r, r.ret))
         IN IF ~r.ok
            THEN [err |-> "stage", msg |-> ZeroBase, calls |-> c]
            ELSE DeconstructLoopToEnd(ts, i + 1, BytesOfString(r.ret), key, c, r.ret)

DeconstructToEnd(ts, data, key) == DeconstructLoopToEnd(ts, 1, data, key, <<>>, NilBytes)

Deconstruct(ts, data, key) == DeconstructLoop(ts, 1, data, key, <<>>)

----------------------------------------------------------------------------
(* Library conversions *)

\* strings that are parsed or stored byte by byte are sequences of characters
Digits == <<"0", "1", "2", "3", "4", "5", "6", "7", "8", "9">>
IsDigit(ch) == \E d \in 1..10 : Digits[d] = ch
DigitVal(ch) == (CHOOSE d \in 1..10 : Digits[d] = ch) - 1

RECURSIVE DigitsVal(_, _)
DigitsVal(s, acc) == IF s = <<>> THEN acc ELSE DigitsVal(Tail(s), 10 * acc + DigitVal(Head(s)))

\* strconv.Atoi: an optional sign followed by at least one decimal digit;
\* on a syntax error the value is 0
Atoi(s) ==
    LET signed == s # <<>> /\ Head(s) \in {"+", "-"}
        ds == IF signed THEN Tail(s) ELSE s
    IN IF ds = <<>> \/ \E i \in 1..Len(ds) : ~IsDigit(ds[i])
       THEN [err |-> TRUE, val |-> 0]
       ELSE [err |-> FALSE,
             val |-> IF signed /\ Head(s) = "-" THEN 0 - DigitsVal(ds, 0) ELSE DigitsVal(ds, 0)]

\* strconv.Itoa
RECURSIVE ItoaNat(_)
ItoaNat(n) == IF n < 10 THEN <<Digits[n + 1]>> ELSE Append(ItoaNat(n \div 10), Digits[(n % 10) + 1])
Itoa(n) == IF n < 0 THEN <<"-">> \o ItoaNat(0 - n) ELSE ItoaNat(n)

\* strings.ToLower, on the words the callers of this model use
ToLower(w) ==
    CASE w = "TCP-Bind" -> "tcp-bind"
      [] w = "TCP-Reverse" -> "tcp-reverse"
      [] w = "OPAQUE" -> "opaque"
      [] w = "None" -> "none"
      [] w = "AES" -> "aes"
      [] w = "PaddingMax" -> "paddingmax"
      [] w = "Secret" -> "secret"
      [] w = "Protocol" -> "protocol"
      [] OTHER -> w

\* net.ResolveTCPAddr("tcp", a) succeeds
ResolvesTCP(a) == a \in {"127.0.0.1:7777", ":4444"}

\* []byte(value): the bytes of the string
BytesOf(value) == [i \in 1..Len(value) |-> value[i]]

----------------------------------------------------------------------------
(* Inputs of the environment *)

PSKs == {"merlin"}
CharStrings == {<<>>, <<"2">>, <<"-", "1">>, <<"k">>}            \* Padding and Set values
ConfigModes == {"tcp-bind", "TCP-Reverse", "udp"}
ConfigAddresses == {<<>>, <<"nowhere">>, <<"127.0.0.1:7777">>}
ConfigAuth == {"OPAQUE", "none", "basic"}
ConfigIDs == {"nil", "id"}                                       \* uuid.Nil or a UUID

\* strings.Split(config.Transformers, ","): never an empty list; the empty
\* string splits into one empty entry
RECURSIVE SeqsUpTo(_, _)
SeqsUpTo(S, n) ==
    IF n = 0 THEN {<<>>}
    ELSE LET shorter == SeqsUpTo(S, n - 1)
         IN shorter \cup {Append(q, x) : q \in {r \in shorter : Len(r) = n - 1}, x \in S}

ConfigTransformers ==
    {<<"">>, <<"rot13">>, <<"gob-base", "bogus">>, <<"gob-base">>, <<"AES", "gob-base">>}

AuthKeys == {EmptyKey, SessionKey}                 \* what authenticator.Secret() may return
AuthMsgs == {Msg("auth", 0)}                        \* what authenticator.Authenticate() may return
CallerMsgs == {Msg("m1", 0), Msg("m1", MaxPad)}     \* what callers pass to Send and Construct
AuthArgs == {Msg("m1", 0)}                          \* what callers pass to Authenticate
GetKeys == {"paddingmax", "Protocol", "sleep"}
SetArgs ==                                          \* what callers pass to Set
    {<<"PaddingMax", v>> : v \in CharStrings}
        \cup {<<"secret", <<>> >>, <<"Secret", <<"k">> >>, <<"sleep", <<"2">> >>}

\* authenticator.Authenticate(msg) returns (msg, authenticated, err)
AuthResults ==
    {[msg |-> m, authenticated |-> b, err |-> FALSE] : m \in AuthMsgs, b \in BOOLEAN}
        \cup {[msg |-> ZeroBase, authenticated |-> FALSE, err |-> TRUE]}

\* authenticator.Secret() returns (key, err); it is called only once authenticated
NoSecret == [key |-> EmptyKey, err |-> FALSE]
SecretResults(a) ==
    IF a.err \/ ~a.authenticated THEN {NoSecret}
    ELSE {[key |-> k, err |-> FALSE] : k \in AuthKeys} \cup {[key |-> EmptyKey, err |-> TRUE]}

\* net.Listen and Accept/Dial: whether each succeeds, where it is called
NetOk == [listen |-> TRUE, conn |-> TRUE]
NetResults(md, l, c) ==
    IF c # Nil THEN {NetOk}
    ELSE {[listen |-> TRUE, conn |-> b] : b \in BOOLEAN}
            \cup (IF md = BIND /\ l = Nil THEN {[listen |-> FALSE, conn |-> FALSE]} ELSE {})

\* connection.Read: end of stream, another error, or the bytes read
NoRead == [kind |-> "error", data |-> NilBytes]
ReadResults(replies) ==
    {[kind |-> "eof", data |-> NilBytes], NoRead} \cup {[kind |-> "data", data |-> d] : d \in replies}

----------------------------------------------------------------------------
(* The record kept in last *)

\* Config{}
ZeroConfig ==
    [AgentID |-> "nil", ListenerID |-> "nil", Mode |-> "", Address |-> <<>>, PSK |-> "",
     Padding |-> <<>>, AuthPackage |-> "", Transformers |-> <<>>]

NoLast ==
    [cfg |-> ZeroConfig, op |-> "", arg |-> ZeroBase, k |-> "", v |-> <<>>, err |-> FALSE, why |-> "",
     events |-> <<>>, sent |-> ZeroBase, key |-> EmptyKey, dkey |-> EmptyKey,
     ccalls |-> <<>>, dcalls |-> <<>>, data |-> NilBytes, din |-> NilBytes,
     msgs |-> <<>>, ret |-> <<>>, echoed |-> FALSE, authd |-> FALSE, akey |-> EmptyKey,
     round |-> 0, old |-> EmptyKey, healing |-> FALSE]

----------------------------------------------------------------------------
(* New: the client built from a Config, or nil *)

BaseConfig ==
    [AgentID |-> "id", ListenerID |-> "id", Mode |-> "tcp-bind",
     Address |-> <<"127.0.0.1:7777">>, PSK |-> "merlin", Padding |-> <<>>,
     AuthPackage |-> "OPAQUE", Transformers |-> <<"gob-base">>]

\* the configurations tried: every combination of identifiers and address, and
\* every value of each other field
Config ==
    {[BaseConfig EXCEPT !.AgentID = a, !.ListenerID = l, !.Address = ad] :
        a \in ConfigIDs, l \in ConfigIDs, ad \in ConfigAddresses}
    \cup {[BaseConfig EXCEPT !.Mode = x] : x \in ConfigModes}
    \cup {[BaseConfig EXCEPT !.PSK = x] : x \in PSKs}
    \cup {[BaseConfig EXCEPT !.Padding = x] : x \in CharStrings}
    \cup {[BaseConfig EXCEPT !.AuthPackage = x] : x \in ConfigAuth}
    \cup {[BaseConfig EXCEPT !.Transformers = x] : x \in ConfigTransformers}

\* client := Client{}
ZeroClient ==
    [nil |-> TRUE, err |-> TRUE, mode |-> 0, psk |-> "", secret |-> EmptyKey,
     paddingMax |-> 0, authenticator |-> "nil", transformers |-> <<>>]

\* a switch whose default case leaves the mode unassigned to either constant
ModeOfUnhandled(w) ==
    CASE ToLower(w) = "tcp-bind" -> BIND
      [] ToLower(w) = "tcp-reverse" -> REVERSE
      [] OTHER -> 2

ModeOf(w) ==
    CASE ToLower(w) = "tcp-bind" -> BIND
      [] ToLower(w) = "tcp-reverse" -> REVERSE
      [] OTHER -> BIND

\* the value New returns: nil, or the client with the fields assigned so far
NewClient(config) ==
    IF config.AgentID = "nil" THEN ZeroClient
    ELSE IF config.ListenerID = "nil" THEN ZeroClient
    ELSE IF Len(config.Address) <= 0 THEN ZeroClient
    ELSE IF ~ResolvesTCP(config.Address[1]) THEN ZeroClient
    ELSE LET c1 == [ZeroClient EXCEPT !.mode = ModeOf(config.Mode),
                                      !.psk = config.PSK,
                                      !.secret = Sha256(config.PSK)]
             pad == Atoi(config.Padding)
             names == [i \in 1..Len(config.Transformers) |-> ToLower(config.Transformers[i])]
         IN IF config.Padding # <<>> /\ pad.err
            THEN [c1 EXCEPT !.nil = FALSE, !.paddingMax = pad.val]      \* return &client, err
            ELSE IF ToLower(config.AuthPackage) \notin {"opaque", "none"} THEN ZeroClient
            ELSE IF \E i \in 1..Len(names) : names[i] \notin StageNames THEN ZeroClient
            ELSE [c1 EXCEPT !.nil = FALSE, !.err = FALSE,
                            !.paddingMax = IF config.Padding # <<>> THEN pad.val ELSE 0,
                            !.authenticator = ToLower(config.AuthPackage),
                            !.transformers = names]

New(config) ==
    /\ pc = "new"
    /\ LET c == NewClient(config)
       IN /\ pc' = IF c.nil THEN "none" ELSE "idle"
          /\ mode' = c.mode
          /\ psk' = c.psk
          /\ secret' = c.secret
          /\ paddingMax' = c.paddingMax
          /\ authenticator' = c.authenticator
          /\ transformers' = c.transformers
          /\ last' = [NoLast EXCEPT !.op = "New", !.cfg = config, !.err = c.err]
    /\ UNCHANGED <<listener, connection, nextSock, authMsg, authRound, reset>>

----------------------------------------------------------------------------
(* Client.Connect.  net says whether net.Listen and Accept/Dial succeed; a *)
(* call that fails returns a nil handle.  The operating system hands out   *)
(* MaxSocks handles and fails every later request.                         *)

\* a Connect that listens whether or not it has a listener
ListensAlways(l) == TRUE

\* if client.listener == nil
Listens(l) == l = Nil

\* a Connect that assigns the connection only when Accept or Dial succeeded
ConnectOpKeep(md, l, c, ns, net) ==
    CASE md = BIND ->
           LET listens == Listens(l)
               lfail == listens /\ ~(net.listen /\ ns <= MaxSocks)
               l1 == IF ~listens THEN l ELSE IF lfail THEN Nil ELSE ns
               ns1 == IF listens /\ ~lfail THEN ns + 1 ELSE ns
               cfail == ~(net.conn /\ ns1 <= MaxSocks)
           IN IF lfail
              THEN [listener |-> l1, connection |-> c, nextSock |-> ns, err |-> TRUE,
                    events |-> <<"listen">>]
              ELSE [listener |-> l1,
                    connection |-> IF cfail THEN c ELSE ns1,
                    nextSock |-> IF cfail THEN ns1 ELSE ns1 + 1,
                    err |-> cfail,
                    events |-> (IF listens THEN <<"listen">> ELSE <<>>) \o <<"accept">>]
      [] md = REVERSE ->
           LET cfail == ~(net.conn /\ ns <= MaxSocks)
           IN [listener |-> l,
               connection |-> IF cfail THEN c ELSE ns,
               nextSock |-> IF cfail THEN ns ELSE ns + 1,
               err |-> cfail,
               events |-> <<"dial">>]
      [] OTHER ->
           [listener |-> l, connection |-> c, nextSock |-> ns, err |-> TRUE, events |-> <<>>]

\* Client.Connect: the fields it leaves, its error and the calls it made
ConnectOp(md, l, c, ns, net) ==
    CASE md = BIND ->
           LET listens == Listens(l)
               lfail == listens /\ ~(net.listen /\ ns <= MaxSocks)
               l1 == IF ~listens THEN l ELSE IF lfail THEN Nil ELSE ns
               ns1 == IF listens /\ ~lfail THEN ns + 1 ELSE ns
               cfail == ~(net.conn /\ ns1 <= MaxSocks)
           IN IF lfail
              THEN [listener |-> l1, connection |-> c, nextSock |-> ns, err |-> TRUE,
                    events |-> <<"listen">>]
              ELSE [listener |-> l1,
                    connection |-> IF cfail THEN Nil ELSE ns1,
                    nextSock |-> IF cfail THEN ns1 ELSE ns1 + 1,
                    err |-> cfail,
                    events |-> (IF listens THEN <<"listen">> ELSE <<>>) \o <<"accept">>]
      [] md = REVERSE ->
           LET cfail == ~(net.conn /\ ns <= MaxSocks)
           IN [listener |-> l,
               connection |-> IF cfail THEN Nil ELSE ns,
               nextSock |-> IF cfail THEN ns ELSE ns + 1,
               err |-> cfail,
               events |-> <<"dial">>]
      [] OTHER ->
           [listener |-> l, connection |-> c, nextSock |-> ns, err |-> TRUE, events |-> <<>>]

Connect(net) ==
    /\ pc = "idle"
    /\ LET r == ConnectOp(mode, listener, connection, nextSock, net)
       IN /\ listener' = r.listener
          /\ connection' = r.connection
          /\ nextSock' = r.nextSock
          /\ reset' = FALSE
          /\ last' = [NoLast EXCEPT !.op = "Connect", !.err = r.err, !.events = r.events]
    /\ UNCHANGED <<pc, mode, paddingMax, psk, secret, transformers, authenticator,
                   authMsg, authRound>>

----------------------------------------------------------------------------
(* Client.Get, Client.Set and Client.String *)

String(md) ==
    CASE md = BIND -> "tcp-bind"
      [] md = REVERSE -> "tcp-reverse"
      [] OTHER -> "tcp-unhandled"

Get(key) ==
    /\ pc = "idle"
    /\ last' = [NoLast EXCEPT !.op = "Get", !.k = key,
                  !.ret = CASE ToLower(key) = "paddingmax" -> Itoa(paddingMax)
                            [] ToLower(key) = "protocol" -> <<String(mode)>>
                            [] OTHER -> <<"unknown client configuration setting: ", key>>]
    /\ UNCHANGED <<pc, mode, listener, connection, paddingMax, psk, secret, transformers,
                   authenticator, nextSock, authMsg, authRound, reset>>

\* a Set whose default case falls into the case above it
SetOpFallThrough(key, value, pm, sec) ==
    CASE ToLower(key) = "paddingmax" ->
           [paddingMax |-> Atoi(value).val, secret |-> sec, err |-> Atoi(value).err]
      [] OTHER ->
           [paddingMax |-> pm, secret |-> BytesOf(value), err |-> ToLower(key) # "secret"]

\* the fields Set assigns
SetOp(key, value, pm, sec) ==
    CASE ToLower(key) = "paddingmax" ->
           [paddingMax |-> Atoi(value).val, secret |-> sec, err |-> Atoi(value).err]
      [] ToLower(key) = "secret" ->
           [paddingMax |-> pm, secret |-> BytesOf(value), err |-> FALSE]
      [] OTHER ->
           [paddingMax |-> pm, secret |-> sec, err |-> TRUE]

Set(key, value) ==
    /\ pc = "idle"
    /\ LET r == SetOp(key, value, paddingMax, secret)
       IN /\ paddingMax' = r.paddingMax
          /\ secret' = r.secret
          /\ last' = [NoLast EXCEPT !.op = "Set", !.k = key, !.v = value, !.err = r.err,
                                    !.old = secret]
    /\ UNCHANGED <<pc, mode, listener, connection, psk, transformers, authenticator,
                   nextSock, authMsg, authRound, reset>>

----------------------------------------------------------------------------
(* What the peer may send back: a message put through the client's stage   *)
(* list, through a longer or a shorter one, under the client's key or      *)
(* another one.                                                            *)

ReplyMsgs == {Msg("reply", 0)}

PeerPipelines(ts) ==
    {ts, ts \o <<"gob-base">>} \cup (IF ts = <<>> THEN {} ELSE {SubSeq(ts, 1, Len(ts) - 1)})

RespData(ts, sec) ==
    {Construct(p, m, sec).data : p \in PeerPipelines(ts), m \in ReplyMsgs}
        \cup {Construct(ts, m, OtherKey).data : m \in ReplyMsgs}

\* the message Send hands to Construct
Padded(m, pm, pad) == IF pm > 0 THEN [m EXCEPT !.pad = pad] ELSE m

\* the replies to a message sent: a reply the client can decode, one built
\* by a longer stage list, one built under another key, or the payload echoed
Replies(ts, m, sec) ==
    {Construct(ts, m, sec).data}
        \cup {Construct(ts, r, k).data : r \in ReplyMsgs, k \in {sec, OtherKey}}
        \cup {Construct(ts \o <<"gob-base">>, r, sec).data : r \in ReplyMsgs}

\* core.RandStringBytesMaskImprSrc(rand.Intn(paddingMax)): the lengths it may have
PadLengths(pm) == IF pm > 0 THEN 0..(pm - 1) ELSE {0}

----------------------------------------------------------------------------
(* Client.Construct and Client.Deconstruct called on their own.  A payload *)
(* given to Deconstruct is echoed when it is the one the preceding         *)
(* Construct call returned; last then keeps the record of that call.       *)

ConstructCall(m) ==
    /\ pc = "idle"
    /\ LET r == Construct(transformers, m, secret)
       IN last' = [NoLast EXCEPT !.op = "Construct", !.arg = m, !.sent = m, !.key = secret,
                                 !.err = r.err, !.ccalls = r.calls, !.data = r.data]
    /\ UNCHANGED <<pc, mode, listener, connection, paddingMax, psk, secret, transformers,
                   authenticator, nextSock, authMsg, authRound, reset>>

DeconstructCall(d) ==
    /\ pc = "idle"
    /\ LET r == Deconstruct(transformers, d, secret)
           echoed == last.op = "Construct" /\ ~last.err /\ last.key = secret /\ d = last.data
       IN last' = [NoLast EXCEPT !.op = "Deconstruct", !.din = d, !.dkey = secret,
                                 !.err = r.err # "", !.why = r.err, !.dcalls = r.calls,
                                 !.msgs = IF r.err = "" THEN <<r.msg>> ELSE <<>>,
                                 !.echoed = echoed,
                                 !.sent = IF echoed THEN last.sent ELSE ZeroBase,
                                 !.key = IF echoed THEN last.key ELSE EmptyKey,
                                 !.ccalls = IF echoed THEN last.ccalls ELSE <<>>,
                                 !.data = IF echoed THEN last.data ELSE NilBytes]
    /\ UNCHANGED <<pc, mode, listener, connection, paddingMax, psk, secret, transformers,
                   authenticator, nextSock, authMsg, authRound, reset>>

----------------------------------------------------------------------------
(* Client.Send.  sec is client.secret at the call; pad is the length of    *)
(* the random padding; net and wok say whether Connect's calls and Write   *)
(* succeed; rd is what Read returns.                                       *)

\* a Read that leaves the connection in place at the end of the stream
AfterReadKeep(c, rd) == c

\* a Read that clears the connection on every error
AfterReadAnyError(c, rd) == IF rd.kind # "data" THEN Nil ELSE c

\* client.connection after Read has returned
AfterRead(c, rd) == IF rd.kind = "eof" THEN Nil ELSE c

\* a Send without the return after an error of Construct
SendOpNoReturn(m, sec, pad, net, wok, rd) ==
    LET m1 == Padded(m, paddingMax, pad)
        cr == Construct(transformers, m1, sec)
        base == [listener |-> listener, connection |-> connection, nextSock |-> nextSock,
                 err |-> TRUE, why |-> "", events |-> <<>>, sent |-> m1, key |-> sec,
                 ccalls |-> cr.calls, data |-> cr.data, din |-> NilBytes, dcalls |-> <<>>,
                 msgs |-> <<>>, echoed |-> FALSE]
        cn == IF connection = Nil
              THEN ConnectOp(mode, listener, connection, nextSock, net)
              ELSE [listener |-> listener, connection |-> connection, nextSock |-> nextSock,
                    err |-> FALSE, events |-> <<>>]
        ev1 == <<"construct">>
        ev2 == ev1 \o (IF connection = Nil THEN <<"connect">> \o cn.events ELSE <<>>)
        conn == [base EXCEPT !.listener = cn.listener, !.connection = cn.connection,
                             !.nextSock = cn.nextSock]
        dr == Deconstruct(transformers, rd.data, sec)
        read == [conn EXCEPT !.din = rd.data, !.dcalls = dr.calls, !.echoed = rd.data = cr.data,
                             !.events = ev2 \o <<"write", "read", "deconstruct">>]
    IN IF cn.err
       THEN [conn EXCEPT !.why = "connect", !.events = ev2]
       ELSE IF ~wok
       THEN [conn EXCEPT !.why = "write", !.events = ev2 \o <<"write">>]
       ELSE IF rd.kind = "eof"
       THEN [conn EXCEPT !.why = "eof", !.events = ev2 \o <<"write", "read">>,
                         !.connection = AfterRead(cn.connection, rd)]
       ELSE IF rd.kind # "data"
       THEN [conn EXCEPT !.why = "read", !.events = ev2 \o <<"write", "read">>,
                         !.connection = AfterRead(cn.connection, rd)]
       ELSE IF dr.err # ""
       THEN [read EXCEPT !.why = "deconstruct"]
       ELSE [read EXCEPT !.err = FALSE, !.msgs = <<dr.msg>>]

\* Client.Send: what it leaves in the client and what it did
SendOp(m, sec, pad, net, wok, rd) ==
    LET m1 == Padded(m, paddingMax, pad)
        cr == Construct(transformers, m1, sec)
        base == [listener |-> listener, connection |-> connection, nextSock |-> nextSock,
                 err |-> TRUE, why |-> "", events |-> <<>>, sent |-> m1, key |-> sec,
                 ccalls |-> cr.calls, data |-> cr.data, din |-> NilBytes, dcalls |-> <<>>,
                 msgs |-> <<>>, echoed |-> FALSE]
        cn == IF connection = Nil
              THEN ConnectOp(mode, listener, connection, nextSock, net)
              ELSE [listener |-> listener, connection |-> connection, nextSock |-> nextSock,
                    err |-> FALSE, events |-> <<>>]
        ev1 == <<"construct">>
        ev2 == ev1 \o (IF connection = Nil THEN <<"connect">> \o cn.events ELSE <<>>)
        conn == [base EXCEPT !.listener = cn.listener, !.connection = cn.connection,
                             !.nextSock = cn.nextSock]
        dr == Deconstruct(transformers, rd.data, sec)
        read == [conn EXCEPT !.din = rd.data, !.dcalls = dr.calls, !.echoed = rd.data = cr.data,
                             !.events = ev2 \o <<"write", "read", "deconstruct">>]
    IN IF cr.err
       THEN [base EXCEPT !.why = "construct", !.events = ev1]
       ELSE IF cn.err
       THEN [conn EXCEPT !.why = "connect", !.events = ev2]
       ELSE IF ~wok
       THEN [conn EXCEPT !.why = "write", !.events = ev2 \o <<"write">>]
       ELSE IF rd.kind = "eof"
       THEN [conn EXCEPT !.why = "eof", !.events = ev2 \o <<"write", "read">>,
                         !.connection = AfterRead(cn.connection, rd)]
       ELSE IF rd.kind # "data"
       THEN [conn EXCEPT !.why = "read", !.events = ev2 \o <<"write", "read">>,
                         !.connection = AfterRead(cn.connection, rd)]
       ELSE IF dr.err # ""
       THEN [read EXCEPT !.why = "deconstruct"]
       ELSE [read EXCEPT !.err = FALSE, !.msgs = <<dr.msg>>]

\* the part of last that a Send fills in
SendLast(op, m, s) ==
    [NoLast EXCEPT !.op = op, !.arg = m, !.err = s.err, !.why = s.why, !.events = s.events,
                   !.sent = s.sent, !.key = s.key, !.dkey = s.key, !.ccalls = s.ccalls,
                   !.data = s.data, !.din = s.din, !.dcalls = s.dcalls, !.msgs = s.msgs,
                   !.echoed = s.echoed]

HasEvent(events, e) == \E i \in 1..Len(events) : events[i] = e

ResetAfter(s) ==
    IF s.why = "eof" THEN TRUE
    ELSE IF HasEvent(s.events, "connect") THEN FALSE
    ELSE reset

Send(m, pad, net, wok, rd) ==
    /\ pc = "idle"
    /\ LET s == SendOp(m, secret, pad, net, wok, rd)
       IN /\ listener' = s.listener
          /\ connection' = s.connection
          /\ nextSock' = s.nextSock
          /\ reset' = ResetAfter(s)
          /\ last' = [SendLast("Send", m, s) EXCEPT !.healing = reset]
    /\ UNCHANGED <<pc, mode, paddingMax, psk, secret, transformers, authenticator,
                   authMsg, authRound>>

----------------------------------------------------------------------------
(* Client.Authenticate.  The prologue resets the secret; each iteration of *)
(* the loop calls the authenticator, adopts its key and sends.  a is what  *)
(* authenticator.Authenticate returns, k what authenticator.Secret does.   *)

Min(a, b) == IF a < b THEN a ELSE b

\* an Authenticate that starts from the secret it finds
KeepSecret(p, sec) == sec

\* k := sha256.Sum256([]byte(client.psk)); client.secret = k[:]
ResetSecret(p, sec) == Sha256(p)

AuthenticateBegin(m) ==
    /\ pc = "idle"
    /\ pc' = "auth"
    /\ secret' = ResetSecret(psk, secret)
    /\ authMsg' = m
    /\ authRound' = 0
    /\ last' = [NoLast EXCEPT !.op = "Authenticate", !.arg = m, !.old = secret]
    /\ UNCHANGED <<mode, listener, connection, paddingMax, psk, transformers, authenticator,
                   nextSock, reset>>

\* a loop that goes on after an error of Send
AuthContinuesOnError(err, authenticated) == ~authenticated

\* a loop without the return at its end
AuthContinuesAlways(err, authenticated) == ~err

\* the loop goes round again: Send returned no error and the authenticator
\* has not reported authenticated
AuthContinues(err, authenticated) == ~err /\ ~authenticated

\* an Authenticate that adopts the key without looking at its length
AdoptKeyAlways(a, k, sec) == IF a.authenticated THEN k.key ELSE sec

\* client.secret after the authenticator has answered
AdoptKey(a, k, sec) == IF a.authenticated /\ Len(k.key) > 0 THEN k.key ELSE sec

AuthReturn(why, events) ==
    /\ pc' = "idle"
    /\ authMsg' = ZeroBase
    /\ last' = [NoLast EXCEPT !.op = "AuthRound", !.arg = authMsg, !.err = TRUE, !.why = why,
                              !.events = events, !.round = authRound, !.old = secret]
    /\ UNCHANGED <<mode, listener, connection, paddingMax, psk, secret, transformers,
                   authenticator, nextSock, authRound, reset>>

AuthenticateRound(a, k, pad, net, wok, rd) ==
    /\ pc = "auth"
    /\ IF authenticator = "nil"
       THEN \* a method call on a nil interface
            /\ pc' = "panic"
            /\ last' = [NoLast EXCEPT !.op = "AuthRound", !.arg = authMsg, !.err = TRUE,
                                      !.why = "panic", !.round = authRound, !.old = secret]
            /\ UNCHANGED <<mode, listener, connection, paddingMax, psk, secret, transformers,
                           authenticator, nextSock, authMsg, authRound, reset>>
       ELSE IF a.err
       THEN AuthReturn("authenticator", <<"authenticate">>)
       ELSE IF a.authenticated /\ k.err
       THEN AuthReturn("secret", <<"authenticate", "secret">>)
       ELSE LET sec == AdoptKey(a, k, secret)
                s == SendOp(a.msg, sec, pad, net, wok, rd)
                more == AuthContinues(s.err, a.authenticated)
            IN /\ secret' = sec
               /\ listener' = s.listener
               /\ connection' = s.connection
               /\ nextSock' = s.nextSock
               /\ reset' = ResetAfter(s)
               /\ pc' = IF more THEN "auth" ELSE "idle"
               /\ authMsg' = IF ~more THEN ZeroBase
                             ELSE IF Len(s.msgs) > 0 THEN s.msgs[1] ELSE a.msg
               /\ authRound' = IF more THEN Min(authRound + 1, MaxRounds) ELSE authRound
               /\ last' = [SendLast("AuthRound", authMsg, s) EXCEPT
                             !.events = <<"authenticate">>
                                          \o (IF a.authenticated THEN <<"secret">> ELSE <<>>)
                                          \o <<"send">> \o s.events,
                             !.authd = a.authenticated, !.akey = k.key,
                             !.round = authRound, !.old = secret, !.healing = reset]
               /\ UNCHANGED <<mode, paddingMax, psk, transformers, authenticator>>

----------------------------------------------------------------------------
(* Client.Initial: Connect, then Authenticate(messages.Base{}) *)

Initial(net) ==
    /\ pc = "idle"
    /\ LET r == ConnectOp(mode, listener, connection, nextSock, net)
       IN /\ listener' = r.listener
          /\ connection' = r.connection
          /\ nextSock' = r.nextSock
          /\ pc' = IF r.err THEN "idle" ELSE "auth"
          /\ secret' = IF r.err THEN secret ELSE ResetSecret(psk, secret)
          /\ authMsg' = ZeroBase
          /\ authRound' = IF r.err THEN authRound ELSE 0
          /\ reset' = FALSE
          /\ last' = [NoLast EXCEPT !.op = "Initial", !.err = r.err, !.old = secret,
                                    !.events = <<"connect">> \o r.events]
    /\ UNCHANGED <<mode, paddingMax, psk, transformers, authenticator>>

----------------------------------------------------------------------------
(* The client and its callers *)

Init ==
    /\ pc = "new"
    /\ mode = ZeroClient.mode
    /\ psk = ZeroClient.psk
    /\ secret = ZeroClient.secret
    /\ paddingMax = ZeroClient.paddingMax
    /\ authenticator = ZeroClient.authenticator
    /\ transformers = ZeroClient.transformers
    /\ listener = Nil
    /\ connection = Nil
    /\ nextSock = 1
    /\ authMsg = ZeroBase
    /\ authRound = 0
    /\ reset = FALSE
    /\ last = NoLast

\* what the network does during a Send of m under sec: nothing when Construct
\* fails; else Connect fails, or Write fails, or Read returns
NoSend == [net |-> NetOk, wok |-> TRUE, rd |-> NoRead]
SendResults(m, sec) ==
    IF Construct(transformers, m, sec).err THEN {NoSend}
    ELSE LET nets == NetResults(mode, listener, connection)
         IN {[net |-> n, wok |-> TRUE, rd |-> NoRead] : n \in {x \in nets : ~x.conn}}
               \cup {[net |-> n, wok |-> FALSE, rd |-> NoRead] : n \in {x \in nets : x.conn}}
               \cup {[net |-> n, wok |-> TRUE, rd |-> r] :
                        n \in {x \in nets : x.conn},
                        r \in ReadResults(Replies(transformers, m, sec))}

Next ==
    \/ \E config \in Config : New(config)
    \/ \E net \in NetResults(mode, listener, Nil) : Initial(net)
    \/ \E net \in NetResults(mode, listener, Nil) : Connect(net)
    \/ \E m \in AuthArgs : AuthenticateBegin(m)
    \/ \E a \in AuthResults, pad \in PadLengths(paddingMax) :
          \E k \in SecretResults(a) :
             \E e \in (IF a.err \/ k.err THEN {NoSend}
                       ELSE SendResults(Padded(a.msg, paddingMax, pad), AdoptKey(a, k, secret))) :
                AuthenticateRound(a, k, pad, e.net, e.wok, e.rd)
    \/ \E m \in CallerMsgs, pad \in PadLengths(paddingMax) :
          \E e \in SendResults(Padded(m, paddingMax, pad), secret) :
             Send(m, pad, e.net, e.wok, e.rd)
    \/ \E m \in CallerMsgs : ConstructCall(m)
    \/ \E d \in Replies(transformers, ZeroBase, secret) \cup {last.data} : DeconstructCall(d)
    \/ \E key \in GetKeys : Get(key)
    \/ \E kv \in SetArgs : Set(kv[1], kv[2])

Spec == Init /\ [][Next]_vars

----------------------------------------------------------------------------
(* The pipeline on its own: every stage list and key, Construct and        *)
(* Deconstruct applied to every message and payload.                       *)

PipeKeys == {Sha256("merlin"), <<"k">>, EmptyKey}

InitPipe ==
    /\ pc = "idle"
    /\ mode = BIND
    /\ psk = "merlin"
    /\ secret \in PipeKeys
    /\ paddingMax = 0
    /\ authenticator = "none"
    /\ transformers \in SeqsUpTo(StageNames, MaxStages) \ {<<>>}
    /\ listener = Nil
    /\ connection = Nil
    /\ nextSock = 1
    /\ authMsg = ZeroBase
    /\ authRound = 0
    /\ reset = FALSE
    /\ last = NoLast

NextPipe ==
    \/ \E m \in Messages : ConstructCall(m)
    \/ \E d \in RespData(transformers, secret) \cup {last.data} : DeconstructCall(d)

SpecPipe == InitPipe /\ [][NextPipe]_vars

----------------------------------------------------------------------------
(* The authentication loop on its own: a client that New has built runs    *)
(* Initial and Authenticate.  Every call of Send returns, so an iteration  *)
(* of the loop is always taken; the authenticator is one that in the end   *)
(* reports authenticated or an error.                                      *)

\* the iterations of the loop in which the authenticator answers with one of A
AuthRounds(A) ==
    \E a \in A, pad \in PadLengths(paddingMax) :
       \E k \in SecretResults(a) :
          \E e \in (IF a.err \/ k.err THEN {NoSend}
                    ELSE SendResults(Padded(a.msg, paddingMax, pad), AdoptKey(a, k, secret))) :
             AuthenticateRound(a, k, pad, e.net, e.wok, e.rd)

\* the answers that report authenticated or an error, and the others
Decisive == {a \in AuthResults : a.err \/ a.authenticated}
Undecided == AuthResults \ Decisive

InitAuth ==
    \E config \in {c \in Config : ~NewClient(c).err} :
       LET c == NewClient(config)
       IN /\ pc = "idle"
          /\ mode = c.mode
          /\ psk = c.psk
          /\ secret = c.secret
          /\ paddingMax = c.paddingMax
          /\ authenticator = c.authenticator
          /\ transformers = c.transformers
          /\ listener = Nil
          /\ connection = Nil
          /\ nextSock = 1
          /\ authMsg = ZeroBase
          /\ authRound = 0
          /\ reset = FALSE
          /\ last = [NoLast EXCEPT !.op = "New", !.cfg = config]

NextAuth ==
    \/ \E net \in NetResults(mode, listener, Nil) : Initial(net)
    \/ \E m \in AuthArgs : AuthenticateBegin(m)
    \/ AuthRounds(AuthResults)

SpecAuth == InitAuth /\ [][NextAuth]_vars /\ WF_vars(AuthRounds(Decisive))

----------------------------------------------------------------------------
(* Properties of the transform pipeline *)

\* the value Deconstruct passes on after a stage returned bytes or a string
NormalizedFrom(v, out) == v.t = "bytes" /\ v.layers = out.layers /\ v.body = out.body

\* C1: with two or more stages, Construct calls the stages in the order of
\* index n-1, ..., 0, the first call on the Base message and every later one
\* on the bytes the call before it returned; Deconstruct calls them in the
\* order 0, 1, ..., each call after the first on the normalized bytes the
\* call before it returned.
C1_StageOrder ==
    Len(transformers) >= 2 =>
        /\ \A j \in 1..Len(last.ccalls) :
              /\ last.ccalls[j].i = Len(transformers) - j
              /\ last.ccalls[j].in = IF j = 1 THEN BaseValue(last.sent)
                                     ELSE last.ccalls[j - 1].out
        /\ \A j \in 1..Len(last.dcalls) :
              /\ last.dcalls[j].i = j - 1
              /\ IF j = 1 THEN last.dcalls[j].in = last.din
                 ELSE NormalizedFrom(last.dcalls[j].in, last.dcalls[j - 1].out)

\* a payload built by two stages has been taken apart by both, one of them
\* returning a string
C1_Witness ==
    /\ last.op = "Deconstruct"
    /\ last.echoed
    /\ Len(last.ccalls) >= 2
    /\ Len(last.dcalls) >= 2
    /\ last.dcalls[1].out.t = "string"

\* C3: Deconstruct of the payload Construct returned for a message, with a
\* non-empty stage list and the secret unchanged, succeeds and returns
\* that message.
C3_RoundTrip ==
    (last.op = "Deconstruct" /\ last.echoed /\ transformers # <<>>) =>
        (~last.err /\ last.msgs = <<last.sent>>)

\* a padded message has gone through an encrypter and an encoder and back
C3_Witness ==
    /\ last.op = "Deconstruct"
    /\ last.echoed
    /\ ~last.err
    /\ last.sent.pad > 0
    /\ Len(transformers) >= 2
    /\ transformers[1] # transformers[2]
    /\ \E j \in 1..Len(transformers) : IsEncrypter(transformers[j])

\* C8: Deconstruct returns the message of the first stage that yields a Base
\* message and calls no later stage; bytes and strings are passed on to the
\* next stage; it fails for want of a message only when every stage has
\* run, and a failure of a stage is the last call made.
C8_Deconstruct ==
    (last.op = "Deconstruct" /\ transformers # <<>>) =>
        LET n == Len(last.dcalls)
            final == last.dcalls[n]
        IN /\ n \in 1..Len(transformers)
           /\ \A j \in 1..(n - 1) :
                 /\ last.dcalls[j].ok
                 /\ last.dcalls[j].out.t \in {"bytes", "string"}
                 /\ NormalizedFrom(last.dcalls[j + 1].in, last.dcalls[j].out)
           /\ ~final.ok => (last.err /\ last.why = "stage" /\ last.msgs = <<>>)
           /\ (final.ok /\ final.out.t = "base") => (~last.err /\ last.msgs = <<final.out.body>>)
           /\ (final.ok /\ final.out.t # "base") =>
                 (n = Len(transformers) /\ last.err /\ last.why = "no-base" /\ last.msgs = <<>>)

\* a stage returned the message while a later stage was still to run
C8_Witness ==
    /\ last.op = "Deconstruct"
    /\ ~last.err
    /\ Len(last.dcalls) >= 1
    /\ Len(last.dcalls) < Len(transformers)

----------------------------------------------------------------------------
(* Properties of the session *)

\* the call recorded in l went through Send, or through Connect
Sends(l) == l.op = "Send" \/ (l.op = "AuthRound" /\ HasEvent(l.events, "send"))
Connects(l) == l.op = "Connect" \/ HasEvent(l.events, "connect")

\* e occurs in events, and before any f
Precedes(events, e, f) ==
    \E i \in 1..Len(events) : events[i] = e /\ \A j \in 1..i : events[j] # f

\* C2: Construct on a client without transform stages returns an error.
C2_EmptyPipelineFails ==
    (pc = "idle" /\ last.op = "Construct" /\ transformers = <<>>) => last.err

\* C4: in the iteration of Authenticate where the authenticator reports
\* authenticated, a non-empty key becomes the secret before the response is
\* constructed and sent, an empty key leaves the secret as it was, the value
\* derived from the pre-shared key; every stage called by Send, Construct
\* and Deconstruct is given the secret of the client.
C4_SecretRotation ==
    [][/\ (last'.op = "AuthRound" /\ last'.authd) =>
             IF last'.akey # EmptyKey
             THEN secret' = last'.akey
             ELSE secret' = secret /\ secret' = Sha256(psk)
       /\ last'.op \in {"AuthRound", "Send", "Construct", "Deconstruct"} =>
             /\ \A j \in 1..Len(last'.ccalls) : last'.ccalls[j].key = secret'
             /\ \A j \in 1..Len(last'.dcalls) : last'.dcalls[j].key = secret']_vars

\* the authenticator has handed over a key, and the response and the reply
\* of that iteration have gone through the stages
C4_Witness ==
    /\ last.op = "AuthRound"
    /\ last.authd
    /\ last.akey = SessionKey
    /\ last.old = Sha256(psk)
    /\ secret = SessionKey
    /\ Len(last.ccalls) > 0
    /\ Len(last.dcalls) > 0
    /\ ~last.err

\* C5 as stated: a Send whose Read meets the end of the stream returns an
\* error and leaves the connection unset; the next Send calls Connect, and
\* writes only after Connect has succeeded; a Send that finds the connection
\* set does not call Connect.  (Stated for a client whose secret is not
\* empty.)
C5_ReconnectAlways ==
    [][Sends(last') =>
          /\ last'.why = "eof" => (last'.err /\ connection' = Nil)
          /\ (reset /\ last'.key # EmptyKey) => HasEvent(last'.events, "connect")
          /\ (reset /\ HasEvent(last'.events, "write")) =>
                (Precedes(last'.events, "connect", "write") /\ last'.why # "connect")
          /\ last'.why = "connect" => ~HasEvent(last'.events, "write")
          /\ connection # Nil => ~HasEvent(last'.events, "connect")]_vars

\* C5, amended: the next Send calls Connect unless its Construct fails, in
\* which case it returns before Connect and the connection stays unset.
C5_Reconnect ==
    [][Sends(last') =>
          /\ last'.why = "eof" => (last'.err /\ connection' = Nil)
          /\ (reset /\ last'.why # "construct") => HasEvent(last'.events, "connect")
          /\ (reset /\ last'.why = "construct") =>
                (~HasEvent(last'.events, "connect") /\ connection' = Nil /\ reset')
          /\ (reset /\ HasEvent(last'.events, "write")) =>
                (Precedes(last'.events, "connect", "write") /\ last'.why # "connect")
          /\ last'.why = "connect" => ~HasEvent(last'.events, "write")
          /\ connection # Nil => ~HasEvent(last'.events, "connect")]_vars

\* a Send that followed an end of stream has connected anew and written
C5_Witness ==
    /\ last.op = "Send"
    /\ last.healing
    /\ HasEvent(last.events, "connect")
    /\ HasEvent(last.events, "write")
    /\ connection # Nil
    /\ ~last.err

\* C6: the secret of a constructed client is never empty.
C6_SecretNeverEmpty ==
    pc \in {"idle", "auth"} => secret # EmptyKey

\* C7 as stated: only Authenticate (also when Initial calls it) changes the
\* secret of a constructed client.
C7_OnlyAuthenticate ==
    [][secret' # secret => last'.op \in {"New", "Initial", "Authenticate", "AuthRound"}]_vars

\* C7, amended: only Authenticate and Set with the key "secret" change the
\* secret; Connect, Send, Construct, Deconstruct, Get and Set with any other
\* key leave it as it is.
C7_SecretFrame ==
    [][secret' # secret =>
          \/ last'.op \in {"New", "Initial", "Authenticate", "AuthRound"}
          \/ last'.op = "Set" /\ ToLower(last'.k) = "secret" /\ secret' = BytesOf(last'.v)]_vars

\* Set has replaced the secret derived from the pre-shared key
C7_Witness ==
    /\ last.op = "Set"
    /\ ToLower(last.k) = "secret"
    /\ last.old = Sha256(psk)
    /\ secret = <<"k">>

\* C9: Authenticate sets the secret to the hash of the pre-shared key before
\* its first call of the authenticator, whatever the secret was; the first
\* iteration sends under that secret unless the authenticator reports
\* authenticated with a non-empty key in that iteration.
C9_ResetFromPSK ==
    /\ (pc = "auth" /\ authRound = 0) => secret = Sha256(psk)
    /\ (last.op = "AuthRound" /\ last.round = 0) => last.old = Sha256(psk)
    /\ (last.op = "AuthRound" /\ last.round = 0 /\ HasEvent(last.events, "send")) =>
          last.key = IF last.authd /\ last.akey # EmptyKey THEN last.akey ELSE Sha256(psk)

\* Authenticate has started on a client whose secret was a rotated one
C9_Witness ==
    /\ pc = "auth"
    /\ authRound = 0
    /\ last.op = "Authenticate"
    /\ last.old = SessionKey
    /\ secret = Sha256(psk)

\* C10: in Bind mode a listener that exists is kept, so net.Listen succeeds
\* at most once; a Connect that finds a listener only accepts, and a
\* successful one replaces the connection.  In Reverse mode the listener
\* stays unset and every Connect dials.
C10_Listener ==
    [][/\ listener # Nil => listener' = listener
       /\ HasEvent(last'.events, "listen") => (listener = Nil /\ mode = BIND)
       /\ mode' = REVERSE => listener' = Nil
       /\ (Connects(last') /\ mode = BIND /\ listener # Nil) =>
             (HasEvent(last'.events, "accept") /\ ~HasEvent(last'.events, "listen"))
       /\ (Connects(last') /\ mode = REVERSE) =>
             (HasEvent(last'.events, "dial") /\ ~HasEvent(last'.events, "listen")
                                             /\ ~HasEvent(last'.events, "accept"))
       /\ (last'.op \in {"Connect", "Initial"} /\ ~last'.err) =>
             connection' \notin {Nil, connection, listener'}]_vars

\* a second Connect in Bind mode has accepted on the listener of the first
C10_Witness ==
    /\ mode = BIND
    /\ last.op = "Connect"
    /\ ~last.err
    /\ last.events = <<"accept">>
    /\ listener = 1
    /\ connection = 3

----------------------------------------------------------------------------
(* Properties of padding and of construction *)

\* C11: the message Send hands to Construct has no padding when paddingMax
\* is 0, and padding of a length in 0..N-1 when paddingMax is N > 0,
\* whatever padding the message of the caller carried.
C11_PaddingBound ==
    Sends(last) =>
        /\ paddingMax = 0 => last.sent.pad = 0
        /\ paddingMax > 0 => last.sent.pad \in 0..(paddingMax - 1)

\* C12: paddingMax of a client is never negative.
C12_PaddingNonNegative ==
    pc \in {"idle", "auth"} => paddingMax >= 0

\* a Config that New has to refuse
BadConfig(c) ==
    \/ c.AgentID = "nil"
    \/ c.ListenerID = "nil"
    \/ c.Address = <<>>
    \/ ~ResolvesTCP(c.Address[1])
    \/ ToLower(c.AuthPackage) \notin {"opaque", "none"}
    \/ (c.Padding # <<>> /\ Atoi(c.Padding).err)
    \/ \E i \in 1..Len(c.Transformers) : ToLower(c.Transformers[i]) \notin StageNames

\* C13: New returns an error and no client for a Config with a nil
\* identifier, without an address that resolves, with an unknown
\* authenticator, a padding that is no integer or a transform that is not
\* known; for every other Config it returns a client and no error.
C13_NewValidation ==
    last.op = "New" =>
        IF BadConfig(last.cfg) THEN last.err /\ pc = "none"
        ELSE ~last.err /\ pc = "idle"

\* the Connect recorded in l returned the error of its default case: it ran
\* without a call of Listen, Accept or Dial
UnhandledMode(l) ==
    \/ l.op = "Connect" /\ l.events = <<>>
    \/ \E i \in 1..Len(l.events) :
          /\ l.events[i] = "connect"
          /\ (i = Len(l.events) \/ l.events[i + 1] \notin {"listen", "accept", "dial"})

\* C14: once New has returned, no operation changes the mode or the list of
\* transform stages; the mode is BIND or REVERSE (BIND for a Mode that is not
\* recognized), Connect never returns the error of an unhandled mode and
\* Get("protocol") never returns "tcp-unhandled".
C14_ModeAndStagesFixed ==
    [][/\ pc # "new" => (mode' = mode /\ transformers' = transformers)
       /\ mode' \in {BIND, REVERSE}
       /\ (last'.op = "New" /\ ToLower(last'.cfg.Mode) \notin {"tcp-bind", "tcp-reverse"}) =>
             mode' = BIND
       /\ ~UnhandledMode(last')
       /\ (last'.op = "Get" /\ ToLower(last'.k) = "protocol") =>
             last'.ret \in {<<"tcp-bind">>, <<"tcp-reverse">>}]_vars

\* a client in Bind mode is asked for its protocol after it has connected
\* and its secret has been rotated: mode and stages are those New assigned
C14_Witness ==
    /\ last.op = "Get"
    /\ ToLower(last.k) = "protocol"
    /\ last.ret = <<"tcp-bind">>
    /\ mode = BIND
    /\ connection # Nil
    /\ secret = SessionKey
    /\ transformers = <<"gob-base">>

----------------------------------------------------------------------------
(* Properties of the authentication loop *)

\* C15: an iteration of Authenticate's loop runs only inside Authenticate
\* and calls the authenticator with the loop's message.  Authenticate
\* returns without an error only from an iteration in which the
\* authenticator reported authenticated and Send succeeded, and that
\* iteration is the last.  An error of the authenticator (of Authenticate or
\* of Secret) ends the loop with an error and without a Send; an error of
\* Send ends the loop with an error.  An iteration that is not the last
\* passes the reply Send returned to the next call of the authenticator.
C15_AuthenticateReturns ==
    [][last'.op = "AuthRound" /\ last'.why # "panic" =>
          /\ pc = "auth"
          /\ last'.arg = authMsg
          /\ (pc' = "idle" /\ ~last'.err) =>
                (last'.authd /\ Sends(last') /\ Len(last'.msgs) = 1)
          /\ (last'.authd /\ ~last'.err) => pc' = "idle"
          /\ last'.why \in {"authenticator", "secret"} =>
                (last'.err /\ pc' = "idle" /\ ~Sends(last') /\ last'.ccalls = <<>>)
          /\ last'.why = "secret" => HasEvent(last'.events, "secret")
          /\ ~Sends(last') => last'.why \in {"authenticator", "secret"}
          /\ (Sends(last') /\ last'.err) => pc' = "idle"
          /\ pc' = "auth" =>
                (~last'.authd /\ ~last'.err /\ Sends(last') /\ authMsg' = last'.msgs[1])]_vars

\* Authenticate has returned without an error from its second or a later
\* iteration, whose call of the authenticator was given the reply of the
\* iteration before
C15_Witness ==
    /\ last.op = "AuthRound"
    /\ last.round >= 1
    /\ last.arg \in ReplyMsgs
    /\ last.authd
    /\ ~last.err
    /\ pc = "idle"

\* Connect, where Send has to call it, can still be given its sockets
SocketsLeft ==
    \/ connection # Nil
    \/ nextSock + (IF mode = BIND /\ listener = Nil THEN 1 ELSE 0) <= MaxSocks

\* an iteration after which the loop goes round again
ContinuingRound == AuthRounds(Undecided) /\ pc' = "auth"

\* C16: with an authenticator that in the end reports authenticated or an
\* error, and a Send that returns, Authenticate leaves its loop.  The loop
\* has no limit of its own: in every iteration, however many went before, an
\* authenticator that reports neither and a Send that succeeds take the
\* loop round again.
C16_AuthenticateTerminates ==
    /\ (pc = "auth") ~> (pc # "auth")
    /\ [](pc = "auth" /\ SocketsLeft => ENABLED ContinuingRound)

\* the loop has gone round more often than the rounds counted, and goes on
C16_Witness ==
    /\ pc = "auth"
    /\ authRound = MaxRounds
    /\ last.op = "AuthRound"
    /\ last.round = MaxRounds
    /\ ~last.err

----------------------------------------------------------------------------
(* Properties of Send, Set, Get and Connect *)

\* C17: Send unsets the connection only when Read meets the end of the
\* stream.  A Send that fails in Construct leaves listener and connection
\* as it found them; one that fails in Write, in Read with another error or
\* in Deconstruct leaves them as they were when that step began: a
\* connection that was set is kept, one that Connect has just made stays
\* set, and the Send that follows does not call Connect.
C17_UnsetOnlyOnEOF ==
    [][Sends(last') =>
          /\ last'.why = "construct" =>
                (connection' = connection /\ listener' = listener /\ nextSock' = nextSock)
          /\ last'.why \in {"write", "read", "deconstruct"} =>
                /\ connection' # Nil
                /\ connection # Nil => (connection' = connection /\ listener' = listener)
                /\ connection = Nil =>
                      (HasEvent(last'.events, "connect") /\ connection' = nextSock' - 1)
          /\ (connection # Nil /\ connection' # connection) =>
                (last'.why = "eof" /\ connection' = Nil)
          /\ connection' = Nil => last'.why \in {"construct", "connect", "eof"}
          /\ (Sends(last) /\ last.why \in {"write", "read", "deconstruct"}) =>
                ~HasEvent(last'.events, "connect")]_vars

\* a Send has connected, written and met an error of Read that is not the
\* end of the stream; the connection it made is in place
C17_Witness ==
    /\ last.op = "Send"
    /\ last.why = "read"
    /\ HasEvent(last.events, "connect")
    /\ connection # Nil

\* the steps of the Send recorded in l, in the order in which they ran
IsSendStep(e) == e \in {"construct", "connect", "write", "read", "deconstruct"}
SendSteps(l) == SelectSeq(l.events, IsSendStep)

IsPrefix(p, q) == Len(p) <= Len(q) /\ SubSeq(q, 1, Len(p)) = p

\* C18: Send runs Construct, Connect if the connection is unset, Write, Read
\* and Deconstruct in this order and returns at the first step that fails:
\* after a failure of Construct nothing else runs, after one of Connect
\* nothing is written, after one of Write nothing is read.  A Send without
\* an error returns one message, a Send with an error returns none.
C18_SendOrder ==
    [][Sends(last') =>
          LET steps == SendSteps(last')
              all == IF connection = Nil
                     THEN <<"construct", "connect", "write", "read", "deconstruct">>
                     ELSE <<"construct", "write", "read", "deconstruct">>
              final == steps[Len(steps)]
          IN /\ steps # <<>>
             /\ IsPrefix(steps, all)
             /\ last'.err <=> last'.why # ""
             /\ (\E j \in 1..Len(last'.ccalls) : ~last'.ccalls[j].ok) => last'.why = "construct"
             /\ (\E j \in 1..Len(last'.dcalls) : ~last'.dcalls[j].ok) => last'.why = "deconstruct"
             /\ last'.why = "construct" => final = "construct"
             /\ last'.why = "connect" => final = "connect"
             /\ last'.why = "write" => final = "write"
             /\ last'.why \in {"eof", "read"} => final = "read"
             /\ last'.why \in {"deconstruct", ""} => final = "deconstruct"
             /\ ~last'.err => Len(last'.msgs) = 1
             /\ last'.err => last'.msgs = <<>>]_vars

\* a Send has failed in Construct with the connection unset, and has not
\* called Connect
C18_Witness ==
    /\ last.op = "Send"
    /\ last.err
    /\ \E j \in 1..Len(last.ccalls) : ~last.ccalls[j].ok
    /\ last.events = <<"construct">>
    /\ connection = Nil
    /\ listener = Nil

\* C19: a Set that returns an error, for a key that is not known or for
\* "paddingmax" with a value that is no integer, leaves every field of the
\* client as it was; Get changes no field, and for a key that is not known
\* it returns a text that names the key.  (Stated for a client whose
\* paddingMax is not negative.)
C19_SetErrorFrame ==
    [][/\ (last'.op = "Set" /\ last'.err /\ paddingMax >= 0) => client' = client
       /\ last'.op = "Get" =>
             /\ client' = client
             /\ ToLower(last'.k) \notin {"paddingmax", "protocol"} =>
                   (Len(last'.ret) = 2 /\ last'.ret[2] = last'.k)]_vars

\* the Connect recorded in l (called on its own, by Initial or by Send)
\* returned an error
ConnectFailed(l) ==
    \/ l.op \in {"Connect", "Initial"} /\ l.err
    \/ Sends(l) /\ l.why = "connect"

====
